---- MODULE Spec2Model ----
(***************************************************************************)
(* Grade-notification routes of server/src/routes/grade-notifications.ts:  *)
(* the SSE connection registry (connections), the missed-notification      *)
(* store (notificationsByStudent), the publish fan-out, the keepalive      *)
(* timers and the TTL expiry job, as one state machine.                    *)
(*                                                                         *)
(* JavaScript objects are modelled by reference: every Set created by a    *)
(* subscribe lives in the heap `sets` under the id of the stream that      *)
(* created it, `connections` maps a studentId to such an id, and each      *)
(* stream keeps the id of the Set its closure captured.                    *)
(***************************************************************************)
EXTENDS Integers, Sequences, FiniteSets, TLC

\* ---------------------------------------------------------------- constants
MAX_CONNECTIONS_PER_STUDENT == 3
MISSED_TTL_MS == 24 * 60 * 60 * 1000

\* ------------------------------------------------------------------- bounds
\* streams (accepted subscribe requests) opened in one behaviour of Spec,
\* of SpecFanout and of SpecStore
MaxStreams == 4
MaxFanoutStreams == 2
MaxStoreStreams == 1
\* records held by the store at one time
MaxStored == 2
\* streams opened in one behaviour of SpecTimers
MaxTimerStreams == 2
\* streams ever accepted in SpecOpen
MaxOpenStreams == 5

\* ------------------------------------------------------------- input domains
Students == {"s1", "s2"}
AssignmentIds == {"a1"}
Grades == {0, 85}
\* a request field that is absent (undefined) in the JSON body / query
Undefined == "<undefined>"
\* an absent or null grade (grade == null)
NullGrade == -1
\* amounts by which the wall clock moves between two events, and the instants at
\* which events happen: either side of the start and of one TTL after it
ClockSteps == {1, MISSED_TTL_MS}
ClockValues == {0, 1, MISSED_TTL_MS, MISSED_TTL_MS + 1}

VARIABLES
    connections,            \* Map studentId -> Set (by id in `sets`)
    sets,                   \* heap of the Set objects: id -> set of stream ids
    streams,                \* one record per accepted subscribe (reply.raw and its closure)
    notificationsByStudent, \* Map studentId -> GradeNotification[]
    now,                    \* Date.now()
    ttlCleanup,             \* the expiry interval is set (setInterval .. clearInterval)
    resp                    \* the reply (and stream writes) of the handler that just ran,
                            \* Idle once it has gone out

vars == <<connections, sets, streams, notificationsByStudent, now, ttlCleanup, resp>>

\* ------------------------------------------------------------ Map helpers
MapSet(m, k, v) == [x \in (DOMAIN m) \cup {k} |-> IF x = k THEN v ELSE m[x]]

\* a delete that empties the map: m.clear()
MapDeleteAll(m, k) == [x \in {} |-> m[x]]

\* m.delete(k)
MapDelete(m, k) == [x \in (DOMAIN m) \ {k} |-> m[x]]

\* a PublishBody; studentIds is read only when hasStudentIds
Body(studentId, hasStudentIds, studentIds, assignmentId, grade) ==
    [studentId |-> studentId, hasStudentIds |-> hasStudentIds,
     studentIds |-> studentIds, assignmentId |-> assignmentId, grade |-> grade]

NoBody == Body(Undefined, FALSE, <<>>, Undefined, NullGrade)

\* a request without ?since=
NoSince == [kind |-> "absent", v |-> 0]

\* one handled event: the request (studentId, body, since) and what the handler
\* answered: HTTP status and error, sent / stored, the notifications list, the
\* streams it wrote a frame to, the streams whose write threw, the streams it
\* called res.end() on and the identities it dropped records of
Reply(op, status, error) ==
    [op |-> op, status |-> status, error |-> error, studentId |-> Undefined,
     body |-> NoBody, since |-> NoSince, sent |-> 0, stored |-> 0,
     written |-> {}, failed |-> {}, ended |-> {}, expired |-> {},
     notifications |-> <<>>]

\* no handler has run since the last reply went out
Idle == Reply("idle", 0, "")

\* ------------------------------------------------------- Connection Registry
\* connections.get(studentId)?.size, 0 for an identity without an entry
ActiveCount(studentId) ==
    IF studentId \in DOMAIN connections
    THEN Cardinality(sets[connections[studentId]])
    ELSE 0

\* the streams the registry references under studentId
Registered(studentId) ==
    IF studentId \in DOMAIN connections THEN sets[connections[studentId]] ELSE {}

\* the limit check off by one: a set of 3 still admits
AtLimitAbove(size) == size > MAX_CONNECTIONS_PER_STUDENT

\* the limit check one too early: a set of 2 already rejects
AtLimitEarly(size) == size >= MAX_CONNECTIONS_PER_STUDENT - 1

\* set.size >= MAX_CONNECTIONS_PER_STUDENT
AtLimit(size) == size >= MAX_CONNECTIONS_PER_STUDENT

\* cleanup that forgets set.delete(res)
SetDeleteNothing(members, c) == members

\* set.delete(res)
SetDelete(members, c) == members \ {c}

\* an end without the writableEnded test: res.end() is called on every stream of cs
EndCallsUnguarded(strs, cs) == cs

\* if (!res.writableEnded) res.end(): the streams of cs that res.end() is called on
EndCalls(strs, cs) == {c \in cs : ~strs[c].writableEnded}

\* res.end() on each stream of cs: the response is finished. The model keeps the
\* first frame of a stream only while the stream can still be written
End(strs, cs) ==
    [c \in DOMAIN strs |->
        IF c \in cs THEN [strs[c] EXCEPT !.writableEnded = TRUE, !.firstFrame = ""]
        ELSE strs[c]]

\* a cleanup that never deletes the studentId entry
CleanupKeepsEntry(c, conns, heap, strs) ==
    LET sid == strs[c].set
    IN  [connections |-> conns,
         sets |-> [heap EXCEPT ![sid] = SetDelete(heap[sid], c)],
         streams |-> End(strs, {c}),
         ended |-> EndCalls(strs, {c})]

\* cleanup() of stream c: the closure's own `set` loses c, the studentId entry of
\* `connections` is deleted when that set is empty, the response is ended
Cleanup(c, conns, heap, strs) ==
    LET sid == strs[c].set
        members == SetDelete(heap[sid], c)
    IN  [connections |-> IF members = {} THEN MapDelete(conns, strs[c].studentId)
                         ELSE conns,
         sets |-> [heap EXCEPT ![sid] = members],
         streams |-> End(strs, {c}),
         ended |-> EndCalls(strs, {c})]

\* a subscribe that sends no first frame
ConnectedFrameMissing == ""

\* data: {"type":"connected","studentId":...}
ConnectedFrame == "connected"

\* : keepalive
KeepaliveFrame == "keepalive"

\* data: <the notification>
NotificationFrame == "notification"

\* res.write(data) on each stream of cs, when it does not throw. Of what a stream
\* was written the model keeps the first frame only
Write(strs, cs, data) ==
    [c \in DOMAIN strs |->
        IF c \in cs /\ strs[c].firstFrame = ""
        THEN [strs[c] EXCEPT !.firstFrame = data] ELSE strs[c]]

\* GET /notifications/stream/:studentId. writeThrows: res.write of the
\* "connected" frame throws, which send() answers with cleanup()
Subscribe(studentId, writeThrows) ==
    LET has == studentId \in DOMAIN connections
    IN  IF has /\ AtLimit(Cardinality(sets[connections[studentId]]))
        THEN /\ resp' = [Reply("subscribe", 429, "Too many connections")
                            EXCEPT !.studentId = studentId]
             /\ UNCHANGED <<connections, sets, streams, notificationsByStudent, now, ttlCleanup>>
        ELSE LET c == Len(streams) + 1
                 sid == IF has THEN connections[studentId] ELSE c
                 conns1 == IF has THEN connections ELSE MapSet(connections, studentId, c)
                 heap1 == IF has THEN [sets EXCEPT ![sid] = @ \cup {c}]
                          ELSE MapSet(sets, c, {c})
                 strs1 == Append(streams,
                                 [studentId |-> studentId, set |-> sid,
                                  writableEnded |-> FALSE, closeEmitted |-> FALSE,
                                  keepalive |-> TRUE, firstFrame |-> ""])
                 after == IF writeThrows THEN Cleanup(c, conns1, heap1, strs1)
                          ELSE [connections |-> conns1, sets |-> heap1,
                                streams |-> Write(strs1, {c}, ConnectedFrame),
                                ended |-> {}]
             IN  /\ connections' = after.connections
                 /\ sets' = after.sets
                 /\ streams' = after.streams
                 /\ resp' = [Reply("subscribe", 200, "") EXCEPT
                                !.studentId = studentId,
                                !.written = IF writeThrows THEN {} ELSE {c},
                                !.failed = IF writeThrows THEN {c} ELSE {},
                                !.ended = after.ended]
                 /\ UNCHANGED <<notificationsByStudent, now, ttlCleanup>>

\* a tick that leaves the timer of an ended stream running
KeepaliveTickKeepsTimer(c, writeThrows) ==
    /\ c \in 1..Len(streams)
    /\ streams[c].keepalive
    /\ IF streams[c].writableEnded
       THEN /\ resp' = Reply("keepalive", 0, "")
            /\ UNCHANGED <<connections, sets, streams>>
       ELSE IF writeThrows
       THEN LET after == Cleanup(c, connections, sets,
                                 [streams EXCEPT ![c].keepalive = FALSE])
            IN  /\ connections' = after.connections
                /\ sets' = after.sets
                /\ streams' = after.streams
                /\ resp' = [Reply("keepalive", 0, "") EXCEPT
                               !.failed = {c}, !.ended = after.ended]
       ELSE /\ streams' = Write(streams, {c}, KeepaliveFrame)
            /\ resp' = [Reply("keepalive", 0, "") EXCEPT !.written = {c}]
            /\ UNCHANGED <<connections, sets>>
    /\ UNCHANGED <<notificationsByStudent, now, ttlCleanup>>

\* a tick that writes without looking at res.writableEnded
KeepaliveTickNoEndedTest(c, writeThrows) ==
    /\ c \in 1..Len(streams)
    /\ streams[c].keepalive
    /\ IF writeThrows
       THEN LET after == Cleanup(c, connections, sets,
                                 [streams EXCEPT ![c].keepalive = FALSE])
            IN  /\ connections' = after.connections
                /\ sets' = after.sets
                /\ streams' = after.streams
                /\ resp' = [Reply("keepalive", 0, "") EXCEPT
                               !.failed = {c}, !.ended = after.ended]
       ELSE /\ streams' = Write(streams, {c}, KeepaliveFrame)
            /\ resp' = [Reply("keepalive", 0, "") EXCEPT !.written = {c}]
            /\ UNCHANGED <<connections, sets>>
    /\ UNCHANGED <<notificationsByStudent, now, ttlCleanup>>

\* one tick of stream c's keepalive interval. writeThrows: res.write throws
KeepaliveTick(c, writeThrows) ==
    /\ c \in 1..Len(streams)
    /\ streams[c].keepalive
    /\ IF streams[c].writableEnded
       THEN /\ streams' = [streams EXCEPT ![c].keepalive = FALSE]
            /\ resp' = Reply("keepalive", 0, "")
            /\ UNCHANGED <<connections, sets>>
       ELSE IF writeThrows
       THEN LET after == Cleanup(c, connections, sets,
                                 [streams EXCEPT ![c].keepalive = FALSE])
            IN  /\ connections' = after.connections
                /\ sets' = after.sets
                /\ streams' = after.streams
                /\ resp' = [Reply("keepalive", 0, "") EXCEPT
                               !.failed = {c}, !.ended = after.ended]
       ELSE /\ streams' = Write(streams, {c}, KeepaliveFrame)
            /\ resp' = [Reply("keepalive", 0, "") EXCEPT !.written = {c}]
            /\ UNCHANGED <<connections, sets>>
    /\ UNCHANGED <<notificationsByStudent, now, ttlCleanup>>

\* a close event that only clears the keepalive timer
CloseEventTimerOnly(c) ==
    /\ c \in 1..Len(streams)
    /\ ~streams[c].closeEmitted
    /\ streams' = [streams EXCEPT ![c].keepalive = FALSE, ![c].closeEmitted = TRUE]
    /\ resp' = Reply("close", 0, "")
    /\ UNCHANGED <<connections, sets, notificationsByStudent, now, ttlCleanup>>

\* a close handler whose cleanup also drops the stored history of its identity
CloseEventDropsHistory(c) ==
    /\ c \in 1..Len(streams)
    /\ ~streams[c].closeEmitted
    /\ LET after == Cleanup(c, connections, sets, streams)
       IN  /\ connections' = after.connections
           /\ sets' = after.sets
           /\ streams' = [after.streams EXCEPT ![c].keepalive = FALSE,
                                               ![c].closeEmitted = TRUE]
           /\ resp' = [Reply("close", 0, "") EXCEPT !.ended = after.ended]
    /\ notificationsByStudent' = MapDelete(notificationsByStudent, streams[c].studentId)
    /\ UNCHANGED <<now, ttlCleanup>>

\* the "close" event of stream c's request: cleanup, then clearInterval(keepalive)
CloseEvent(c) ==
    /\ c \in 1..Len(streams)
    /\ ~streams[c].closeEmitted
    /\ LET after == Cleanup(c, connections, sets, streams)
       IN  /\ connections' = after.connections
           /\ sets' = after.sets
           /\ streams' = [after.streams EXCEPT ![c].keepalive = FALSE,
                                               ![c].closeEmitted = TRUE]
           /\ resp' = [Reply("close", 0, "") EXCEPT !.ended = after.ended]
    /\ UNCHANGED <<notificationsByStudent, now, ttlCleanup>>

\* ------------------------------------------------------- Publication Engine
\* an id that leaves the studentId out
NotificationIdNoStudent(studentId, assignmentId, publishedAt) ==
    assignmentId \o ":" \o ToString(publishedAt)

\* `${studentId}:${assignmentId}:${publishedAt.getTime()}`
NotificationId(studentId, assignmentId, publishedAt) ==
    studentId \o ":" \o assignmentId \o ":" \o ToString(publishedAt)

\* body.studentIds ?? (body.studentId ? [body.studentId] : [])
StudentIds(body) ==
    IF body.hasStudentIds THEN body.studentIds
    ELSE IF body.studentId \notin {Undefined, ""} THEN <<body.studentId>>
    ELSE <<>>

\* validation that forgets the grade
MissingAssignmentOnly(body) == body.assignmentId \in {Undefined, ""}

\* a test of the grade for falsiness: !body?.assignmentId || !body.grade
MissingAssignmentOrFalsyGrade(body) ==
    \/ body.assignmentId \in {Undefined, ""}
    \/ body.grade \in {NullGrade, 0}

\* !body?.assignmentId || body.grade == null
MissingAssignmentOrGrade(body) ==
    \/ body.assignmentId \in {Undefined, ""}
    \/ body.grade = NullGrade

\* a loop without the sentThisRequest check
AlreadySentNever(id, seen) == FALSE

\* sentThisRequest.has(id)
AlreadySent(id, seen) == id \in seen

\* a throw that is not caught per stream and ends the fan-out
DeliveredUntilThrow(live, thrown) == IF thrown = {} THEN live ELSE {}

\* the streams of one fan-out that get the frame: a write that throws is caught
\* per stream, the loop goes on with the next stream
Delivered(live, thrown) == live \ thrown

\* a push that skips a record whose id the list already holds
PushUnlessHeld(list, notification) ==
    IF \E i \in 1..Len(list) : list[i].id = notification.id THEN list
    ELSE Append(list, notification)

\* a publish that fans out without storing the record
PushDropped(list, notification) == list

\* list.push(notification)
Push(list, notification) == Append(list, notification)

\* one pass of the loop body for studentId: dedup by id, store, then fan out to
\* connections.get(studentId); a write that throws deletes the stream from that
\* Set and ends it, and nothing else
PublishOne(studentId, body, publishedAt, fail, st) ==
    LET id == NotificationId(studentId, body.assignmentId, publishedAt)
        \* teacherComment is copied into the record and read by nothing
        notification == [id |-> id, studentId |-> studentId,
                         assignmentId |-> body.assignmentId, grade |-> body.grade,
                         publishedAt |-> publishedAt]
        list == IF studentId \in DOMAIN st.store THEN st.store[studentId] ELSE <<>>
        has == studentId \in DOMAIN connections
        sid == IF has THEN connections[studentId] ELSE 0
        activeConnections == IF has THEN st.sets[sid] ELSE {}
        live == {c \in activeConnections : ~st.streams[c].writableEnded}
        thrown == live \cap fail
        delivered == Delivered(live, thrown)
    IN  IF AlreadySent(id, st.seen) THEN st
        ELSE [store |-> MapSet(st.store, studentId, Push(list, notification)),
              sets |-> IF has THEN [st.sets EXCEPT ![sid] = @ \ thrown] ELSE st.sets,
              streams |-> End(Write(st.streams, delivered, NotificationFrame), thrown),
              seen |-> st.seen \cup {id},
              sent |-> st.sent + Cardinality(delivered),
              stored |-> st.stored + 1,
              written |-> st.written \cup delivered,
              failed |-> st.failed \cup thrown,
              ended |-> st.ended \cup EndCalls(st.streams, thrown)]

\* a handler that returns to the event loop after its first target
PublishLoopFirstOnly(ids, i, body, publishedAt, fail, st) ==
    IF i > Len(ids) THEN st
    ELSE PublishOne(ids[i], body, publishedAt, fail, st)

\* for (const studentId of studentIds) { ... }, from index i on
RECURSIVE PublishLoop(_, _, _, _, _, _)
PublishLoop(ids, i, body, publishedAt, fail, st) ==
    IF i > Len(ids) THEN st
    ELSE PublishLoop(ids, i + 1, body, publishedAt, fail,
                     PublishOne(ids[i], body, publishedAt, fail, st))

\* the error of the 400 reply, "" for a body that passes validation
ValidationError(body) ==
    IF MissingAssignmentOrGrade(body) THEN "Missing assignmentId or grade"
    ELSE IF Len(StudentIds(body)) = 0 THEN "Missing studentId or studentIds"
    ELSE ""

\* POST /grades/publish. fail: the streams whose res.write throws in this request
Publish(body, fail) ==
    IF ValidationError(body) # ""
    THEN /\ resp' = [Reply("publish", 400, ValidationError(body)) EXCEPT !.body = body]
         /\ UNCHANGED <<connections, sets, streams, notificationsByStudent, now, ttlCleanup>>
    ELSE LET st == PublishLoop(StudentIds(body), 1, body, now, fail,
                               [store |-> notificationsByStudent, sets |-> sets,
                                streams |-> streams, seen |-> {}, sent |-> 0,
                                stored |-> 0, written |-> {}, failed |-> {},
                                ended |-> {}])
         IN  /\ notificationsByStudent' = st.store
             /\ sets' = st.sets
             /\ streams' = st.streams
             /\ resp' = [Reply("publish", 200, "") EXCEPT
                            !.body = body, !.sent = st.sent, !.stored = st.stored,
                            !.written = st.written, !.failed = st.failed,
                            !.ended = st.ended]
             /\ UNCHANGED <<connections, now, ttlCleanup>>

\* ---------------------------------------------------------- Notification Store
\* an expiry run that stores the kept list back also when it is empty
TtlCleanupKeepsEmpty ==
    LET cutoff == now - MISSED_TTL_MS
        Fresh(n) == n.publishedAt > cutoff
    IN  /\ ttlCleanup
        /\ notificationsByStudent' =
               [studentId \in DOMAIN notificationsByStudent
                    |-> SelectSeq(notificationsByStudent[studentId], Fresh)]
        /\ resp' = Reply("ttlCleanup", 0, "")
        /\ UNCHANGED <<connections, sets, streams, now, ttlCleanup>>

\* an expiry run that drops nothing
TtlCleanupKeepsAll ==
    /\ ttlCleanup
    /\ resp' = Reply("ttlCleanup", 0, "")
    /\ UNCHANGED <<connections, sets, streams, notificationsByStudent, now, ttlCleanup>>

\* the ttlCleanup interval callback
TtlCleanup ==
    LET cutoff == now - MISSED_TTL_MS
        Fresh(n) == n.publishedAt > cutoff
        kept(studentId) == SelectSeq(notificationsByStudent[studentId], Fresh)
    IN  /\ ttlCleanup
        /\ notificationsByStudent' =
               [studentId \in {s \in DOMAIN notificationsByStudent : Len(kept(s)) # 0}
                    |-> kept(studentId)]
        /\ resp' = [Reply("ttlCleanup", 0, "") EXCEPT
                       !.expired = {s \in DOMAIN notificationsByStudent :
                                      Len(kept(s)) < Len(notificationsByStudent[s])}]
        /\ UNCHANGED <<connections, sets, streams, now, ttlCleanup>>

\* /^\d+$/.test(sinceParam) ? Number(sinceParam) : new Date(sinceParam).getTime()
\* A JS number is "finite" with its value, "huge" (finite, beyond the Date range of
\* +-8.64e15 ms), "inf" (Number of a digit string past 1.8e308) or "nan".
ParseSince(sinceParam) ==
    CASE sinceParam.kind = "digits" -> [kind |-> "finite", v |-> sinceParam.v]
      [] sinceParam.kind = "digitsHuge" -> [kind |-> "huge", v |-> 0]
      [] sinceParam.kind = "digitsInf" -> [kind |-> "inf", v |-> 0]
      [] sinceParam.kind = "iso" -> [kind |-> "finite", v |-> sinceParam.v]
      [] OTHER -> [kind |-> "nan", v |-> 0]

\* a handler that builds the Date without testing sinceParam for null first
SinceDateUnguarded(sinceParam) ==
    LET parsed == ParseSince(sinceParam)
    IN  CASE parsed.kind = "finite" -> [kind |-> "valid", v |-> parsed.v]
          [] parsed.kind = "inf" -> [kind |-> "none", v |-> 0]
          [] OTHER -> [kind |-> "invalid", v |-> 0]

\* a handler without the Number.isFinite test: NaN becomes an Invalid Date
SinceDateNoFiniteTest(sinceParam) ==
    IF sinceParam.kind \in {"absent", "empty"} THEN [kind |-> "none", v |-> 0]
    ELSE LET parsed == ParseSince(sinceParam)
         IN  CASE parsed.kind = "finite" -> [kind |-> "valid", v |-> parsed.v]
               [] OTHER -> [kind |-> "invalid", v |-> 0]

\* let sinceDate ...: "none" (undefined), "valid" with its time, or "invalid"
\* (new Date(parsed) of a finite number outside the Date range: time NaN)
SinceDate(sinceParam) ==
    IF sinceParam.kind \in {"absent", "empty"} THEN [kind |-> "none", v |-> 0]
    ELSE LET parsed == ParseSince(sinceParam)
         IN  CASE parsed.kind = "finite" -> [kind |-> "valid", v |-> parsed.v]
               [] parsed.kind = "huge" -> [kind |-> "invalid", v |-> 0]
               [] OTHER -> [kind |-> "none", v |-> 0]

\* a filter that leaves out the record published at exactly sinceDate
MissedListStrict(studentId, sinceParam) ==
    LET sinceDate == SinceDate(sinceParam)
        list == IF studentId \in DOMAIN notificationsByStudent
                THEN notificationsByStudent[studentId] ELSE <<>>
        After(n) == sinceDate.kind = "valid" /\ n.publishedAt > sinceDate.v
    IN  IF sinceDate.kind = "none" THEN list ELSE SelectSeq(list, After)

\* sinceDate ? list.filter((n) => n.publishedAt >= sinceDate) : list
MissedList(studentId, sinceParam) ==
    LET sinceDate == SinceDate(sinceParam)
        list == IF studentId \in DOMAIN notificationsByStudent
                THEN notificationsByStudent[studentId] ELSE <<>>
        AtOrAfter(n) == sinceDate.kind = "valid" /\ n.publishedAt >= sinceDate.v
    IN  IF sinceDate.kind = "none" THEN list ELSE SelectSeq(list, AtOrAfter)

\* a missed handler that creates the list it did not find:
\* notificationsByStudent.set(studentId, []) in place of ?? []
MissedCreatesEntry(studentId, sinceParam) ==
    /\ resp' = [Reply("missed", 200, "") EXCEPT
                   !.studentId = studentId, !.since = sinceParam,
                   !.notifications = MissedList(studentId, sinceParam)]
    /\ notificationsByStudent' =
          IF studentId \in DOMAIN notificationsByStudent THEN notificationsByStudent
          ELSE MapSet(notificationsByStudent, studentId, <<>>)
    /\ UNCHANGED <<connections, sets, streams, now, ttlCleanup>>

\* GET /notifications/missed/:studentId
Missed(studentId, sinceParam) ==
    /\ resp' = [Reply("missed", 200, "") EXCEPT
                   !.studentId = studentId, !.since = sinceParam,
                   !.notifications = MissedList(studentId, sinceParam)]
    /\ UNCHANGED <<connections, sets, streams, notificationsByStudent, now, ttlCleanup>>

\* the reply of the handler that just ran goes out (reply.send, the log line);
\* handlers run to completion, so the next event is handled after it
RespondAfterStreamsClose ==
    /\ resp # Idle
    /\ resp.op \in {"publish", "missed"} =>
          \A c \in 1..Len(streams) : streams[c].writableEnded
    /\ resp' = Idle
    /\ UNCHANGED <<connections, sets, streams, notificationsByStudent, now, ttlCleanup>>

Respond ==
    /\ resp # Idle
    /\ resp' = Idle
    /\ UNCHANGED <<connections, sets, streams, notificationsByStudent, now, ttlCleanup>>

\* the onClose hook: the server shuts down
OnClose ==
    /\ ttlCleanup' = FALSE
    /\ resp' = Reply("onClose", 0, "")
    /\ UNCHANGED <<connections, sets, streams, notificationsByStudent, now>>

\* time passes between two events
AdvanceTime(d) ==
    /\ now' = now + d
    /\ UNCHANGED <<connections, sets, streams, notificationsByStudent, ttlCleanup, resp>>


\* ------------------------------------------------------------ request domains
\* SpecStore keys the store by one student and by the empty string, which a
\* studentIds list may hold
StoreIds == {"s1", ""}

ListsOf(ids) == {<<>>} \cup {<<a>> : a \in ids} \cup {<<a, b>> : a, b \in ids}

\* malformed bodies: no assignmentId, no grade, no target, an empty list
MalformedBodies ==
    {Body("s1", FALSE, <<>>, a, 85) : a \in {Undefined, ""}}
    \cup {Body("s1", FALSE, <<>>, a, NullGrade) : a \in AssignmentIds}
    \cup {Body(s, FALSE, <<>>, a, 85) : s \in {Undefined, ""}, a \in AssignmentIds}
    \cup {Body(s, TRUE, <<>>, a, 85) : s \in {Undefined, "s1"}, a \in AssignmentIds}

\* one identity, one grade
RegistryBodies ==
    {Body("s1", FALSE, <<>>, "a1", 85), Body("s1", FALSE, <<>>, Undefined, 85)}

\* a single studentId, a list, or both, one grade
FanoutBodies ==
    {Body(s, FALSE, <<>>, "a1", 85) : s \in Students}
    \cup {Body(Undefined, TRUE, l, "a1", 85) : l \in ListsOf(Students)}
    \cup {Body("s1", TRUE, <<"s2">>, "a1", 85), Body("s1", FALSE, <<>>, "a1", NullGrade)}

PublishBodies ==
    {Body("s1", FALSE, <<>>, a, g) : a \in AssignmentIds, g \in Grades}
    \cup {Body(Undefined, TRUE, l, a, 85) : l \in ListsOf(StoreIds), a \in AssignmentIds}
    \cup {Body("s1", TRUE, <<"">>, a, 85) : a \in AssignmentIds}
    \cup MalformedBodies

SinceParams ==
    {[kind |-> k, v |-> 0] : k \in {"absent", "empty", "garbage", "digitsHuge", "digitsInf"}}
    \cup {[kind |-> "digits", v |-> v] : v \in {1, MISSED_TTL_MS}}
    \cup {[kind |-> "iso", v |-> MISSED_TTL_MS]}

\* records currently held by the store
StoreSize ==
    LET RECURSIVE Sum(_)
        Sum(S) == IF S = {} THEN 0
                  ELSE LET s == CHOOSE x \in S : TRUE
                       IN  Len(notificationsByStudent[s]) + Sum(S \ {s})
    IN  Sum(DOMAIN notificationsByStudent)

\* the streams a publish of body attempts to write: a write that is not
\* attempted cannot throw
WriteTargets(body) ==
    IF MissingAssignmentOrGrade(body) THEN {}
    ELSE {c \in 1..Len(streams) :
            /\ ~streams[c].writableEnded
            /\ \E i \in 1..Len(StudentIds(body)) : c \in Registered(StudentIds(body)[i])}

\* ------------------------------------------------------------ specification
Init ==
    /\ connections = <<>>
    /\ sets = <<>>
    /\ streams = <<>>
    /\ notificationsByStudent = <<>>
    /\ now = 0
    /\ ttlCleanup = TRUE
    /\ resp = Idle

\* Spec: the registry of one identity, up to MaxStreams streams
Next ==
    \/ /\ resp = Idle
       /\ \E writeThrows \in BOOLEAN :
             /\ Len(streams) < MaxStreams
                   \/ ActiveCount("s1") >= MAX_CONNECTIONS_PER_STUDENT
             /\ Subscribe("s1", writeThrows)
    \/ /\ resp = Idle
       /\ \E c \in 1..Len(streams), writeThrows \in BOOLEAN : KeepaliveTick(c, writeThrows)
    \/ /\ resp = Idle
       /\ \E c \in 1..Len(streams) : CloseEvent(c)
    \/ /\ resp = Idle
       /\ \E body \in RegistryBodies : \E fail \in SUBSET WriteTargets(body) :
             /\ StoreSize + Len(StudentIds(body)) <= MaxStored
             /\ Publish(body, fail)
    \/ /\ resp = Idle
       /\ Missed("s1", NoSince)
    \/ /\ resp = Idle
       /\ TtlCleanup
    \/ Respond

Spec == Init /\ [][Next]_vars

\* SpecFanout: two identities, up to MaxFanoutStreams streams, batch publishes
NextFanout ==
    \/ /\ resp = Idle
       /\ \E s \in Students, writeThrows \in BOOLEAN :
             /\ Len(streams) < MaxFanoutStreams
                   \/ ActiveCount(s) >= MAX_CONNECTIONS_PER_STUDENT
             /\ Subscribe(s, writeThrows)
    \/ /\ resp = Idle
       /\ \E c \in 1..Len(streams), writeThrows \in BOOLEAN : KeepaliveTick(c, writeThrows)
    \/ /\ resp = Idle
       /\ \E c \in 1..Len(streams) : CloseEvent(c)
    \/ /\ resp = Idle
       /\ \E body \in FanoutBodies : \E fail \in SUBSET WriteTargets(body) :
             /\ StoreSize + Len(StudentIds(body)) <= MaxStored
             /\ Publish(body, fail)
    \/ /\ resp = Idle
       /\ \E s \in Students : Missed(s, NoSince)
    \/ /\ resp = Idle
       /\ TtlCleanup
    \/ Respond

SpecFanout == Init /\ [][NextFanout]_vars

\* SpecStore: the store under the clock, up to MaxStoreStreams streams
NextStore ==
    \/ /\ resp = Idle
       /\ \E writeThrows \in BOOLEAN :
             /\ Len(streams) < MaxStoreStreams
                   \/ ActiveCount("s1") >= MAX_CONNECTIONS_PER_STUDENT
             /\ Subscribe("s1", writeThrows)
    \/ /\ resp = Idle
       /\ \E c \in 1..Len(streams), writeThrows \in BOOLEAN : KeepaliveTick(c, writeThrows)
    \/ /\ resp = Idle
       /\ \E c \in 1..Len(streams) : CloseEvent(c)
    \/ /\ resp = Idle
       /\ \E body \in PublishBodies : \E fail \in SUBSET WriteTargets(body) :
             /\ StoreSize + Len(StudentIds(body)) <= MaxStored
             /\ Publish(body, fail)
    \/ /\ resp = Idle
       /\ \E sinceParam \in SinceParams : Missed("s1", sinceParam)
    \/ /\ resp = Idle
       /\ TtlCleanup
    \/ /\ resp = Idle
       /\ \E d \in ClockSteps :
             /\ now + d \in ClockValues
             /\ AdvanceTime(d)
    \/ Respond

SpecStore == Init /\ [][NextStore]_vars

\* the keepalive interval of stream c fires and its callback is run
TimerFires(c) ==
    /\ resp = Idle
    /\ \E writeThrows \in BOOLEAN : KeepaliveTick(c, writeThrows)

\* SpecTimers: the keepalive timers of up to MaxTimerStreams streams. A timer that
\* is set fires again and again (setInterval) and the event loop runs its callback
\* once the handler before it has returned; whether a client ever disconnects is
\* up to the client. The server is shut down at most once, and no request reaches a
\* handler after that; the timers and the close events of the streams go on
NextTimers ==
    \/ /\ resp = Idle
       /\ ttlCleanup
       /\ \E writeThrows \in BOOLEAN :
             /\ Len(streams) < MaxTimerStreams
             /\ Subscribe("s1", writeThrows)
    \/ \E c \in 1..Len(streams) : TimerFires(c)
    \/ /\ resp = Idle
       /\ \E c \in 1..Len(streams) : CloseEvent(c)
    \/ /\ resp = Idle
       /\ ttlCleanup
       /\ \E fail \in SUBSET WriteTargets(Body("s1", FALSE, <<>>, "a1", 85)) :
             /\ StoreSize < MaxStored
             /\ Publish(Body("s1", FALSE, <<>>, "a1", 85), fail)
    \/ /\ resp = Idle
       /\ ttlCleanup
       /\ Missed("s1", NoSince)
    \/ /\ resp = Idle
       /\ ttlCleanup
       /\ OnClose
    \/ Respond

SpecTimers ==
    /\ Init /\ [][NextTimers]_vars
    /\ WF_vars(Respond)
    /\ \A c \in 1..MaxTimerStreams : SF_vars(TimerFires(c))

\* SpecOpen: the streams of one identity alone, subscribes, keepalive ticks and
\* disconnects, up to MaxOpenStreams streams
NextOpen ==
    \/ /\ resp = Idle
       /\ \E writeThrows \in BOOLEAN :
             /\ Len(streams) < MaxOpenStreams
                   \/ ActiveCount("s1") >= MAX_CONNECTIONS_PER_STUDENT
             /\ Subscribe("s1", writeThrows)
    \/ /\ resp = Idle
       /\ \E c \in 1..Len(streams), writeThrows \in BOOLEAN : KeepaliveTick(c, writeThrows)
    \/ /\ resp = Idle
       /\ \E c \in 1..Len(streams) : CloseEvent(c)
    \/ Respond

SpecOpen == Init /\ [][NextOpen]_vars

\* a record published at t grows older than the TTL within the clock's values
ExpiresWithinClock(t) == \E u \in ClockValues : u - t > MISSED_TTL_MS

\* the ttlCleanup interval fires and its callback is run
ExpiryFires == resp = Idle /\ TtlCleanup

\* the wall clock moves on
TimePasses ==
    /\ resp = Idle
    /\ \E d \in ClockSteps : now + d \in ClockValues /\ AdvanceTime(d)

\* SpecExpiry: the store while the server runs: the clock keeps moving, the expiry
\* interval keeps firing, and publishes stop early enough for their records to
\* outlive the TTL within the clock's values
NextExpiry ==
    \/ /\ resp = Idle
       /\ ExpiresWithinClock(now)
       /\ \E body \in PublishBodies :
             /\ StoreSize + Len(StudentIds(body)) <= MaxStored
             /\ Publish(body, {})
    \/ /\ resp = Idle
       /\ \E s \in StoreIds : Missed(s, NoSince)
    \/ ExpiryFires
    \/ TimePasses
    \/ Respond

SpecExpiry ==
    /\ Init /\ [][NextExpiry]_vars
    /\ WF_vars(Respond)
    /\ SF_vars(ExpiryFires)
    /\ SF_vars(TimePasses)

\* ------------------------------------------------------------------ claims
\* the step just taken was handled by op (every handler starts from Idle)
Handled(op) == resp = Idle /\ resp'.op = op

\* the store's list for studentId, empty without an entry
Stored(studentId) ==
    IF studentId \in DOMAIN notificationsByStudent
    THEN notificationsByStudent[studentId] ELSE <<>>

\* C1: in every reachable state the registry holds at most 3 streams for any one
\* identity.
C1_AtMostThreeRegistered ==
    \A s \in DOMAIN connections :
        Cardinality(sets[connections[s]]) <= MAX_CONNECTIONS_PER_STUDENT

\* the limit is reached and a further subscribe has just been turned away
C1_Witness ==
    /\ ActiveCount("s1") = MAX_CONNECTIONS_PER_STUDENT
    /\ resp.op = "subscribe" /\ resp.status = 429

\* C2: a subscribe is answered 429 "Too many connections" exactly when the identity
\* has 3 registered streams; a rejected subscribe opens no stream, starts no
\* keepalive timer and leaves registry and store as they were; any other subscribe
\* is answered 200 and opens one stream.
C2_RejectedExactlyAtLimit ==
    [][Handled("subscribe") =>
          /\ (resp'.status = 429) <=>
                (ActiveCount(resp'.studentId) = MAX_CONNECTIONS_PER_STUDENT)
          /\ resp'.status = 429 =>
                /\ resp'.error = "Too many connections"
                /\ UNCHANGED <<connections, sets, streams, notificationsByStudent>>
          /\ resp'.status # 429 =>
                /\ resp'.status = 200
                /\ Len(streams') = Len(streams) + 1]_vars

\* a subscribe rejected while the store holds a record and all 3 timers run
C2_Witness ==
    /\ resp.op = "subscribe" /\ resp.status = 429
    /\ Stored("s1") # <<>>
    /\ Cardinality({c \in 1..Len(streams) : streams[c].keepalive}) = 3

\* C3: when an identity has 3 registered streams and the client of one of them
\* disconnects, the next subscribe for that identity is accepted: the close leaves
\* fewer than 3 registered, only an accepted subscribe for the identity raises its
\* count again, and a subscribe that finds fewer than 3 is accepted (and its
\* stream registered, unless the write of its first frame throws).
C3_SubscribeAfterDisconnectAccepted ==
    [][\A s \in Students :
          /\ (/\ Handled("close")
              /\ ActiveCount(s) = MAX_CONNECTIONS_PER_STUDENT
              /\ \E c \in Registered(s) : ~streams[c].closeEmitted
                                          /\ streams'[c].closeEmitted)
                => ActiveCount(s)' = MAX_CONNECTIONS_PER_STUDENT - 1
          /\ ActiveCount(s)' > ActiveCount(s)
                => Handled("subscribe") /\ resp'.studentId = s /\ resp'.status = 200
          /\ (/\ Handled("subscribe")
              /\ resp'.studentId = s
              /\ ActiveCount(s) < MAX_CONNECTIONS_PER_STUDENT)
                => /\ resp'.status = 200
                   /\ resp'.failed = {} => Len(streams') \in Registered(s)']_vars

\* streams 1..3 filled the limit, one of them was disconnected, and the 4th
\* subscribe has just been accepted into the freed place
C3_Witness ==
    /\ resp.op = "subscribe" /\ resp.status = 200
    /\ Len(streams) = 4
    /\ \E c \in 1..3 :
          /\ streams[c].closeEmitted
          /\ Registered("s1") = (1..4) \ {c}

\* C4: running cleanup on a stream that was already cleaned up leaves the registry
\* (the streams registered under every identity) exactly as it was before.
C4_SecondCleanupChangesNothing ==
    [][\A c \in 1..Len(streams) :
          (/\ Handled("close")
           /\ streams[c].writableEnded
           /\ ~streams[c].closeEmitted
           /\ streams'[c].closeEmitted)
             => \A s \in Students : Registered(s)' = Registered(s)]_vars

\* C5: every stream that was accepted and is not closed is a member of the set the
\* registry holds under its identity.
C5_NoRegisterLost ==
    \A c \in 1..Len(streams) :
        ~streams[c].writableEnded => c \in Registered(streams[c].studentId)

\* C6: the registry has no identity whose set is empty.
C6_NoEmptyEntry ==
    \A s \in DOMAIN connections : sets[connections[s]] # {}

\* the identities a publish of body goes through, and the streams it attempts to
\* write (registered under a target and not ended) in the state before it
Targets(body) == {StudentIds(body)[i] : i \in 1..Len(StudentIds(body))}

Attempted(body) ==
    {c \in UNION {Registered(t) : t \in Targets(body)} : ~streams[c].writableEnded}

AllIds == Students \cup StoreIds

\* list grew by exactly one record, for studentId with the body's assignment and grade
AppendedOne(before, after, studentId, body) ==
    /\ Len(after) = Len(before) + 1
    /\ SubSeq(after, 1, Len(before)) = before
    /\ after[Len(after)].studentId = studentId
    /\ after[Len(after)].assignmentId = body.assignmentId
    /\ after[Len(after)].grade = body.grade

\* C7: when a write throws during a publish's fan-out, the stream is removed from
\* the registry and ended, every other registered stream of every target of the
\* request is still written, the records are stored, and the publish answers 200
\* with sent equal to the number of writes that succeeded.
C7_FailedWriteDoesNotStopFanout ==
    [][(Handled("publish") /\ ~MissingAssignmentOrGrade(resp'.body)
            /\ Targets(resp'.body) # {}) =>
          /\ resp'.status = 200
          /\ resp'.failed \subseteq Attempted(resp'.body)
          /\ resp'.written = Attempted(resp'.body) \ resp'.failed
          /\ resp'.sent = Cardinality(resp'.written)
          /\ \A f \in resp'.failed :
                /\ streams'[f].writableEnded
                /\ \A s \in Students : f \notin Registered(s)'
          /\ \A t \in Targets(resp'.body) :
                AppendedOne(Stored(t), Stored(t)', t, resp'.body)]_vars

\* a publish in which one write threw and another stream was still written
C7_Witness ==
    /\ resp.op = "publish" /\ resp.status = 200
    /\ resp.failed # {} /\ resp.written # {}
    /\ resp.sent = Cardinality(resp.written)

\* C8: for every publish that passes validation, stored equals the number of
\* distinct identities among its targets, and exactly one record is appended per
\* distinct target identity and none for any other identity, whatever streams are
\* registered.
C8_StoredCountsDistinctTargets ==
    [][(Handled("publish") /\ resp'.status = 200) =>
          /\ resp'.stored = Cardinality(Targets(resp'.body))
          /\ \A s \in AllIds :
                IF s \in Targets(resp'.body)
                THEN AppendedOne(Stored(s), Stored(s)', s, resp'.body)
                ELSE Stored(s)' = Stored(s)]_vars

\* a batch that names s1 twice stored one record, with a stream registered
C8_Witness ==
    /\ resp.op = "publish" /\ resp.status = 200
    /\ resp.body.hasStudentIds /\ resp.body.studentIds = <<"s1", "s1">>
    /\ resp.stored = 1 /\ resp.sent = 1

\* a body without assignment identity, without grade, without any target
\* identity, or with an empty target list
Malformed(body) ==
    \/ body.assignmentId \in {Undefined, ""}
    \/ body.grade = NullGrade
    \/ ~body.hasStudentIds /\ body.studentId \in {Undefined, ""}
    \/ body.hasStudentIds /\ body.studentIds = <<>>

\* C9: a publish that fails validation is answered 400 and changes nothing: no
\* record is appended, no stream is written, the registry is unchanged.
C9_MalformedPublishChangesNothing ==
    [][Handled("publish") =>
          /\ Malformed(resp'.body) => resp'.status = 400
          /\ resp'.status = 400 =>
                /\ UNCHANGED <<notificationsByStudent, connections, sets, streams>>
                /\ resp'.written = {} /\ resp'.stored = 0 /\ resp'.sent = 0]_vars

\* an empty studentIds list was answered 400 while the store holds a record and a
\* stream is registered
C9_Witness ==
    /\ resp.op = "publish" /\ resp.status = 400
    /\ resp.body.hasStudentIds /\ resp.body.studentIds = <<>>
    /\ Stored("s1") # <<>>
    /\ Registered("s1") # {}

\* before is a prefix of after
IsPrefix(before, after) ==
    Len(before) <= Len(after) /\ SubSeq(after, 1, Len(before)) = before

\* C10: a valid publish to one identity that has no registered stream answers
\* stored = 1 and sent = 0 and appends its record; a missed-query without since
\* answers the identity's whole list; and no step other than an expiry run removes
\* a record from a list.
C10_OfflinePublishIsStoredAndReturned ==
    [][/\ \A t \in AllIds :
             (/\ Handled("publish") /\ resp'.status = 200
              /\ StudentIds(resp'.body) = <<t>>
              /\ Registered(t) = {})
                => /\ resp'.stored = 1 /\ resp'.sent = 0
                   /\ AppendedOne(Stored(t), Stored(t)', t, resp'.body)
       /\ (Handled("missed") /\ resp'.since = NoSince)
             => /\ resp'.status = 200
                /\ resp'.notifications = Stored(resp'.studentId)
       /\ ~Handled("ttlCleanup")
             => \A s \in AllIds : IsPrefix(Stored(s), Stored(s)')]_vars

\* the record of a publish made while no stream existed came back from a
\* missed-query without since, after time has passed
C10_Witness ==
    /\ resp.op = "missed" /\ resp.since = NoSince
    /\ Len(resp.notifications) = 1
    /\ resp.notifications[1].publishedAt = 0
    /\ streams = <<>>
    /\ now > 0

\* the streams that were accepted for studentId and are not closed (not ended)
Open(studentId) ==
    {c \in 1..Len(streams) :
        streams[c].studentId = studentId /\ ~streams[c].writableEnded}

\* C11: for a valid publish whose writes all succeed, every stream that is open
\* (accepted and not closed) for a target identity is written one notification
\* frame, and sent equals the number of such open streams over all distinct targets.
C11_EveryOpenStreamIsWritten ==
    [][(Handled("publish") /\ resp'.status = 200 /\ resp'.failed = {}) =>
          /\ resp'.written = UNION {Open(t) : t \in Targets(resp'.body)}
          /\ resp'.sent = Cardinality(UNION {Open(t) : t \in Targets(resp'.body)})]_vars

\* the target list of body names some identity more than once
Repeats(body) ==
    \E i, j \in 1..Len(StudentIds(body)) :
        i # j /\ StudentIds(body)[i] = StudentIds(body)[j]

\* C12: when an identity appears more than once in the target list of one publish,
\* exactly one record is stored for it and each of its registered streams is
\* written exactly once; two targets with different identity strings are never
\* collapsed into one, each gets its own record.
C12_RepeatedTargetHandledOnce ==
    [][(Handled("publish") /\ resp'.status = 200) =>
          /\ Repeats(resp'.body) =>
                /\ \A t \in Targets(resp'.body) :
                      Len(Stored(t)') = Len(Stored(t)) + 1
                /\ resp'.written \cup resp'.failed = Attempted(resp'.body)
                /\ resp'.sent = Cardinality(resp'.written)
          /\ \A t, u \in Targets(resp'.body) :
                t # u => /\ AppendedOne(Stored(t), Stored(t)', t, resp'.body)
                         /\ AppendedOne(Stored(u), Stored(u)', u, resp'.body)
                         /\ resp'.stored >= 2]_vars

\* a list naming s1 twice stored one record and wrote each of s1's two streams once
C12_Witness ==
    /\ resp.op = "publish" /\ resp.status = 200
    /\ resp.body.hasStudentIds /\ resp.body.studentIds = <<"s1", "s1">>
    /\ Registered("s1") = {1, 2}
    /\ resp.written = {1, 2} /\ resp.sent = 2 /\ resp.stored = 1

\* the records of list that carry body's assignment and grade for studentId
Matching(list, studentId, body) ==
    {i \in 1..Len(list) : /\ list[i].studentId = studentId
                          /\ list[i].assignmentId = body.assignmentId
                          /\ list[i].grade = body.grade}

\* C13: every valid publish appends its own record for each target, whatever the
\* store already holds: the number of records with the request's studentId,
\* assignmentId and grade grows by exactly one, also when an earlier request stored
\* the same three values under the same publish timestamp; and a missed-query
\* without since answers with all of them.
C13_SeparatePublishesBothStored ==
    [][/\ (Handled("publish") /\ resp'.status = 200) =>
             \A t \in Targets(resp'.body) :
                Cardinality(Matching(Stored(t)', t, resp'.body))
                   = Cardinality(Matching(Stored(t), t, resp'.body)) + 1
       /\ (Handled("missed") /\ resp'.since = NoSince) =>
             \A body \in PublishBodies :
                Matching(resp'.notifications, resp'.studentId, body)
                   = Matching(Stored(resp'.studentId), resp'.studentId, body)]_vars

\* a missed-query answered two records that are equal in every field, id and
\* publish timestamp included
C13_Witness ==
    /\ resp.op = "missed" /\ resp.studentId = "s1"
    /\ Len(resp.notifications) = 2
    /\ resp.notifications[1] = resp.notifications[2]
    /\ resp.notifications[1].grade = 85

\* the records of list published at or after bound, in the order of list
FromBound(list, bound) ==
    LET NotBefore(n) == n.publishedAt >= bound
    IN  SelectSeq(list, NotBefore)

C15_UnparsableSinceIsNoBound ==
    [][(Handled("missed") /\ resp'.since.kind \in {"empty", "garbage"}) =>
          /\ resp'.status = 200 /\ resp'.error = ""
          /\ resp'.notifications = Stored(resp'.studentId)
          /\ resp'.notifications = MissedList(resp'.studentId, NoSince)]_vars

\* a query with unparsable text was answered both stored records
C15_Witness ==
    /\ resp.op = "missed" /\ resp.since.kind = "garbage"
    /\ resp.status = 200
    /\ Len(resp.notifications) = 2

\* every stream opened so far for studentId has been disconnected by its client
AllDisconnected(studentId) ==
    \A c \in 1..Len(streams) :
        streams[c].studentId = studentId => streams[c].closeEmitted

\* C16: after any number of connect-then-disconnect cycles for one identity, once
\* every opened stream has been disconnected the registry holds no entry and no
\* stream for that identity, and a fresh subscribe for it is accepted.
C16_NoLeakAfterDisconnects ==
    [][\A s \in Students :
          /\ AllDisconnected(s)' =>
                s \notin DOMAIN connections' /\ Registered(s)' = {}
          /\ (AllDisconnected(s) /\ Handled("subscribe") /\ resp'.studentId = s) =>
                /\ resp'.status = 200
                /\ Len(streams') = Len(streams) + 1
                /\ resp'.failed = {} => Registered(s)' = {Len(streams')}]_vars

\* three streams were opened and disconnected one after the other, nothing is left
\* in the registry, and a fourth subscribe has just been accepted
C16_Witness ==
    /\ resp.op = "subscribe" /\ resp.status = 200
    /\ Len(streams) = 4
    /\ \A c \in 1..3 : streams[c].closeEmitted
    /\ Registered("s1") = {4}
    /\ DOMAIN connections = {"s1"}

\* C17: on every accepted stream the first frame written is the connected frame: a
\* stream that has not been written it is one whose first write threw and that was
\* ended at once, and every keepalive or notification frame goes to a stream that
\* was written its connected frame in an earlier step, whatever publish is handled
\* before or after the subscribe.
C17_ConnectedFrameFirst ==
    [][/\ \A c \in 1..Len(streams') :
             /\ streams'[c].firstFrame \in {"", ConnectedFrame}
             /\ streams'[c].firstFrame = "" => streams'[c].writableEnded
       /\ (Handled("keepalive") \/ Handled("publish")) =>
             \A c \in resp'.written :
                c \in 1..Len(streams) /\ streams[c].firstFrame = ConnectedFrame]_vars

\* a publish wrote its frame to two streams, each written its connected frame before
C17_Witness ==
    /\ resp.op = "publish" /\ resp.status = 200
    /\ Cardinality(resp.written) = 2
    /\ \A c \in resp.written : streams[c].firstFrame = ConnectedFrame

\* the records of list that are at most 24h old at time t, in the order of list
Retained(list, t) ==
    LET Young(n) == t - n.publishedAt <= MISSED_TTL_MS
    IN  SelectSeq(list, Young)

\* C18: an expiry run at time now drops exactly the records with
\* now - publishedAt > 24h and keeps every record with now - publishedAt <= 24h (a
\* record that is exactly 24h old is kept), keeps the order of the kept records,
\* and removes every identity left with no record.
C18_ExpiryKeepsUpToTtl ==
    [][Handled("ttlCleanup") =>
          /\ \A s \in AllIds : Stored(s)' = Retained(Stored(s), now)
          /\ \A s \in DOMAIN notificationsByStudent' :
                notificationsByStudent'[s] # <<>>]_vars

\* C19: in every reachable state the store holds no identity whose list of records
\* is empty, after any interleaving of publishes, queries and expiry runs.
C19_NoEmptyStoreEntry ==
    \A s \in DOMAIN notificationsByStudent : Len(notificationsByStudent[s]) > 0

\* an expiry run at 24h + 1 ms has left the record published at 24h under its
\* identity, and no other identity is in the store
C19_Witness ==
    /\ resp.op = "ttlCleanup"
    /\ now = MISSED_TTL_MS + 1
    /\ DOMAIN notificationsByStudent = {""}
    /\ notificationsByStudent[""][1].publishedAt = MISSED_TTL_MS

\* the streams whose client has disconnected
Disconnected(strs) == {c \in 1..Len(strs) : strs[c].closeEmitted}

\* C20: when a publish for an identity and the disconnect of one of its streams
\* happen in either order, the publish answers 200 and appends its record, it
\* writes nothing to a stream disconnected before it, a missed-query answers the
\* stored records, and after the disconnect (and through every later step) the
\* registry holds no reference to the disconnected stream.
C20_PublishAndDisconnectInEitherOrder ==
    [][/\ (Handled("publish") /\ ~Malformed(resp'.body)) =>
             /\ resp'.status = 200
             /\ \A t \in Targets(resp'.body) :
                   AppendedOne(Stored(t), Stored(t)', t, resp'.body)
             /\ (resp'.written \cup resp'.failed) \cap Disconnected(streams) = {}
       /\ (Handled("missed") /\ resp'.since = NoSince) =>
             resp'.notifications = Stored(resp'.studentId)
       /\ \A c \in Disconnected(streams') :
             /\ streams'[c].writableEnded
             /\ \A s \in DOMAIN connections' : c \notin sets'[connections'[s]]]_vars

\* the only stream of s1 was disconnected and a publish for s1 handled after it
\* answered 200 with its record stored and nothing sent
C20_Witness ==
    /\ resp.op = "publish" /\ resp.status = 200
    /\ resp.stored = 1 /\ resp.sent = 0
    /\ Len(streams) = 1 /\ streams[1].closeEmitted
    /\ connections = <<>>
    /\ Len(Stored("s1")) = 1

\* the streams that are closed: their response has been ended
Closed(strs) == {c \in 1..Len(strs) : strs[c].writableEnded}

\* C21: once a stream is closed (by client disconnect, failed fan-out write or
\* failed keepalive write) it stays closed, no later publish, keepalive tick or
\* send attempts a write on it, and no set the registry holds refers to it.
C21_ClosedStreamIsLeftAlone ==
    [][/\ Closed(streams) \subseteq Closed(streams')
       /\ (resp'.written \cup resp'.failed) \cap Closed(streams) = {}
       /\ \A c \in Closed(streams') :
             \A s \in DOMAIN connections' : c \notin sets'[connections'[s]]]_vars

\* a publish wrote to stream 3 while stream 1, closed by a failed write, and
\* stream 2, closed by its client, were passed over
C21_Witness ==
    /\ resp.op = "publish" /\ resp.written = {3}
    /\ Closed(streams) = {1, 2}
    /\ ~streams[1].closeEmitted /\ streams[2].closeEmitted

\* the first of the four validation failures that body has, in the order missing
\* assignment identity, missing grade, neither identity nor list, empty list
FirstFailure(body) ==
    IF body.assignmentId \in {Undefined, ""} THEN "assignment"
    ELSE IF body.grade = NullGrade THEN "grade"
    ELSE IF ~body.hasStudentIds /\ body.studentId \in {Undefined, ""} THEN "target"
    ELSE IF body.hasStudentIds /\ body.studentIds = <<>> THEN "emptyList"
    ELSE "none"

\* C22: publish validation checks, in this order, a missing assignment identity, a
\* missing grade, the absence of both identity and list, and an empty list, and
\* each of the four failures is reported with its own reason: a rejected body's
\* reason differs from the reason of every body whose first failure is another one.
C22_FourDistinctReasons ==
    [][(Handled("publish") /\ resp'.status = 400) =>
          /\ FirstFailure(resp'.body) # "none"
          /\ \A other \in MalformedBodies :
                FirstFailure(other) # FirstFailure(resp'.body)
                   => ValidationError(other) # resp'.error]_vars

\* the identities that got a record appended in the step
Appended == {s \in AllIds : Len(Stored(s)') > Len(Stored(s))}

\* C23: target resolution of a publish with assignment and grade: whenever the
\* single identity field is present the one target is that identity, also when a
\* list (even an empty one) is present as well; when only a list is present the
\* targets are its elements.
C23_SingleIdentityWins ==
    [][(Handled("publish") /\ ~MissingAssignmentOrGrade(resp'.body)) =>
          IF resp'.body.studentId \notin {Undefined, ""}
          THEN /\ resp'.status = 200
               /\ Appended = {resp'.body.studentId}
          ELSE resp'.body.hasStudentIds =>
                  Appended = {resp'.body.studentIds[i] :
                                 i \in 1..Len(resp'.body.studentIds)}]_vars

\* C24: each stream makes the Open -> Closed transition at most once: res.end() is
\* called only on a stream that is not closed and closes it, a stream closes only
\* by such a call, and a closed stream never opens again, whatever combination of
\* client disconnect, failed fan-out write, failed keepalive write and failed
\* connected-frame write hits the stream.
C24_EndedAtMostOnce ==
    [][/\ resp'.ended \cap Closed(streams) = {}
       /\ resp'.ended \subseteq Closed(streams')
       /\ Closed(streams') \ Closed(streams) \subseteq resp'.ended
       /\ Closed(streams) \subseteq Closed(streams')]_vars

\* the client of a stream that a failed write had closed disconnects: the second
\* cleanup calls res.end() on nothing
C24_Witness ==
    /\ resp.op = "close" /\ resp.ended = {}
    /\ \E c \in 1..Len(streams) : streams[c].closeEmitted /\ ~streams[c].keepalive
    /\ Closed(streams) = 1..Len(streams)
    /\ Len(streams) = 2

\* the dead-channel cleanup of stream c has taken effect in the step: c is in no
\* set of the registry, its response is ended, and an identity whose set has
\* become empty has no entry
DeadChannelCleanedUp(c) ==
    /\ \A s \in DOMAIN connections' : c \notin sets'[connections'[s]]
    /\ c \in Closed(streams')
    /\ sets'[streams[c].set] = {} => streams[c].studentId \notin DOMAIN connections'

\* C25: a failed keepalive write on a stream has the same effect on the registry
\* as a failed fan-out write on it: in both cases the stream is removed from its
\* identity's set, the identity's entry is removed if the set became empty, and
\* the stream is closed.
C25_KeepaliveFailureLikeFanoutFailure ==
    [][(Handled("keepalive") \/ Handled("publish")) =>
          \A c \in resp'.failed : DeadChannelCleanedUp(c)]_vars

\* the client of stream c disconnected in the step
JustDisconnected(c) == ~streams[c].closeEmitted /\ streams'[c].closeEmitted

\* C26: every stream that becomes closed, by client disconnect, by a failed
\* keepalive write or by a failed fan-out write, eventually has its keepalive timer
\* released, provided that timers keep firing and handlers return; and a client
\* disconnect always leaves the stream deregistered.
C26_TimerEventuallyReleased ==
    /\ \A c \in 1..MaxTimerStreams :
          [](c \in Closed(streams) => <>(c \in Closed(streams) /\ ~streams[c].keepalive))
    /\ [][\A c \in 1..Len(streams) :
             JustDisconnected(c) =>
                \A s \in DOMAIN connections' : c \notin sets'[connections'[s]]]_vars

\* a failed fan-out write closed the only stream (its identity is left with an
\* empty set), no client disconnected, and a later tick has released the timer
C26_Witness ==
    /\ resp.op = "keepalive"
    /\ Len(streams) = 1 /\ 1 \in Closed(streams)
    /\ ~streams[1].closeEmitted /\ ~streams[1].keepalive
    /\ "s1" \in DOMAIN connections /\ Registered("s1") = {}

\* C27: store precedes fan-out: whenever a publish writes a notification frame to
\* a stream, its record is in the store under the stream's identity by the time
\* the handler returns; a missed-query answers what the store holds, and no step
\* but an expiry run removes a record, so a missed-query at any moment after a
\* live delivery returns the record until it expires.
C27_StoredWhenDelivered ==
    [][/\ Handled("publish") =>
             \A c \in resp'.written :
                AppendedOne(Stored(streams[c].studentId),
                            Stored(streams[c].studentId)',
                            streams[c].studentId, resp'.body)
       /\ Handled("missed") => resp'.notifications = Stored(resp'.studentId)
       /\ ~Handled("ttlCleanup") =>
             \A s \in Students : IsPrefix(Stored(s), Stored(s)')]_vars

\* a batch was delivered live to a stream of s1 and a stream of s2, and both
\* records are in the store
C27_Witness ==
    /\ resp.op = "publish" /\ resp.written = {1, 2}
    /\ streams[1].studentId # streams[2].studentId
    /\ Stored("s1") # <<>> /\ Stored("s2") # <<>>

\* C28: a publish is atomic with respect to other requests: the store appends and
\* fan-out writes for all targets of one publish happen in the one step of its
\* handler, every other change of the store is an expiry run, and a missed-query
\* changes nothing and answers the store as it finds it, so it never observes a
\* batch of which only some targets have been stored.
C28_PublishIsOneStep ==
    [][/\ (Handled("publish") /\ resp'.status = 200) =>
             /\ \A t \in Targets(resp'.body) :
                   AppendedOne(Stored(t), Stored(t)', t, resp'.body)
             /\ resp'.written \cup resp'.failed = Attempted(resp'.body)
       /\ notificationsByStudent' # notificationsByStudent =>
             Handled("publish") \/ Handled("ttlCleanup")
       /\ Handled("missed") =>
             /\ resp'.notifications = Stored(resp'.studentId)
             /\ UNCHANGED <<notificationsByStudent, connections, sets, streams>>]_vars

\* a batch for s1 and s2 in which a write threw has stored both records in its
\* one step
C28_Witness ==
    /\ resp.op = "publish" /\ resp.body.studentIds = <<"s1", "s2">>
    /\ resp.failed # {} /\ resp.stored = 2
    /\ Len(Stored("s1")) = 1 /\ Len(Stored("s2")) = 1

\* C29: every record a missed-query answers at time now satisfies
\* now - publishedAt <= 24h: a record older than the TTL is never returned, also
\* when the query arrives between two expiry runs.
C29_NoExpiredRecordReturned ==
    [][Handled("missed") =>
          \A i \in 1..Len(resp'.notifications) :
             now - resp'.notifications[i].publishedAt <= MISSED_TTL_MS]_vars

\* C30: while the server runs and the expiry timer keeps firing, every stored
\* record is eventually removed from the store, no later than the first expiry run
\* that happens more than 24h after its publish timestamp: an expiry run leaves no
\* record older than 24h behind, and every identity's list is eventually empty
\* once publishes have stopped.
C30_StoreEventuallyEmptied ==
    /\ \A s \in StoreIds : [](Stored(s) # <<>> => <>(Stored(s) = <<>>))
    /\ [][Handled("ttlCleanup") =>
             \A s \in StoreIds : \A i \in 1..Len(Stored(s)') :
                now - Stored(s)'[i].publishedAt <= MISSED_TTL_MS]_vars

\* the expiry run at 24h + 1 ms dropped the records of both identities and left
\* the store empty
C30_Witness ==
    /\ resp.op = "ttlCleanup" /\ resp.expired = StoreIds
    /\ now = MISSED_TTL_MS + 1
    /\ notificationsByStudent = <<>>

\* the publish and missed requests of SpecTimers
TimerRequests ==
    {"publish", "missed"}

\* C31: every publish and every missed-query runs to its response in finitely many
\* steps and waits for no subscribe task: whatever the streams' states, the handler
\* can run as soon as the one before it has returned, its single step yields the
\* reply, and the reply goes out although streams stay open for ever
C31_PublishAndMissedRunToTheirReply ==
    /\ [](resp = Idle =>
             /\ \A fail \in SUBSET WriteTargets(Body("s1", FALSE, <<>>, "a1", 85)) :
                    ENABLED Publish(Body("s1", FALSE, <<>>, "a1", 85), fail)
             /\ ENABLED Missed("s1", NoSince))
    /\ [][\A op \in TimerRequests : Handled(op) => resp'.status = 200]_vars
    /\ \A op \in TimerRequests : (resp.op = op) ~> (resp = Idle)

\* a publish has its reply while one stream took the frame, another stream's write
\* threw, and no stream has been closed by its client
C31_Witness ==
    /\ resp.op = "publish"
    /\ resp.status = 200
    /\ resp.written # {}
    /\ resp.failed # {}
    /\ \A c \in 1..Len(streams) : ~streams[c].closeEmitted

\* the registry holds a reference to stream c
Referenced(c) ==
    \E s \in DOMAIN connections : c \in sets[connections[s]]

\* C32: once the server is shut down, every stream that is still open is closed and
\* removed from the registry and its keepalive timer is released; stated of every
\* stream as something that at least eventually holds after the shutdown.
C32_ShutdownClosesEveryStream ==
    \A c \in 1..MaxTimerStreams :
        [](~ttlCleanup /\ c \in DOMAIN streams =>
              <>(/\ c \in Closed(streams)
                 /\ ~streams[c].keepalive
                 /\ ~Referenced(c)))

\* C33: in every reachable state at most 3 streams of one identity are open
\* (accepted by subscribe and not yet closed), whether or not the registry still
\* refers to them.
C33_AtMostThreeOpen ==
    \A s \in Students : Cardinality(Open(s)) <= MAX_CONNECTIONS_PER_STUDENT

\* C34: every key of the notification store is a non-empty string: no publish,
\* whether its single studentId is empty or its studentIds list holds an empty
\* string, stores a record under the empty identity.
C34_NoEmptyStoreKey ==
    "" \notin DOMAIN notificationsByStudent

\* the records of one list that carry the id of its i-th record
SameId(list, i) ==
    {j \in 1..Len(list) : list[j].id = list[i].id}

\* C35: after any sequence of valid publishes no two records in the history of one
\* identity have the same id (studentId:assignmentId:publishedAt in ms).
C35_IdsUniquePerIdentity ==
    \A s \in DOMAIN notificationsByStudent :
        \A i \in 1..Len(notificationsByStudent[s]) :
            SameId(notificationsByStudent[s], i) = {i}

\* C36: a missed-query is read-only: it changes neither the notification store nor
\* the connection registry (nor any stream), and a query for an identity without
\* stored records answers the empty list and creates no entry for that identity.
C36_MissedIsReadOnly ==
    [][Handled("missed") =>
          /\ UNCHANGED <<notificationsByStudent, connections, sets, streams>>
          /\ Stored(resp'.studentId) = <<>> =>
                /\ resp'.notifications = <<>>
                /\ resp'.studentId \notin DOMAIN notificationsByStudent']_vars

\* a missed-query answered the empty list for an identity without an entry while
\* the store holds records of another identity and a stream is registered
C36_Witness ==
    /\ resp.op = "missed"
    /\ resp.notifications = <<>>
    /\ resp.studentId \notin DOMAIN notificationsByStudent
    /\ DOMAIN notificationsByStudent # {}
    /\ Registered(resp.studentId) # {}

\* the step is an operation for identity y: a subscribe for y, a publish that has y
\* among its targets, or a disconnect or keepalive tick of one of y's streams
OperationFor(y) ==
    \/ Handled("subscribe") /\ resp'.studentId = y
    \/ Handled("publish") /\ y \in Targets(resp'.body)
    \/ /\ Handled("close") \/ Handled("keepalive")
       /\ \E c \in 1..Len(streams) : streams[c].studentId = y /\ streams'[c] # streams[c]

\* C37: per-identity isolation: a subscribe, disconnect, keepalive failure or cleanup
\* for one identity, and a publish that does not target identity y, never change the
\* registered stream set or the stored history of y; whenever either changes, the
\* step is an operation for y itself.
C37_OtherIdentitiesUntouched ==
    [][\A y \in Students :
          (Registered(y)' # Registered(y) \/ Stored(y)' # Stored(y)) => OperationFor(y)]_vars

\* the only stream of s1 was disconnected and the entry of s1 deleted while s2 has
\* a registered stream and a stored record
C37_Witness ==
    /\ resp.op = "close"
    /\ resp.ended # {}
    /\ \A c \in resp.ended : streams[c].studentId = "s1"
    /\ "s1" \notin DOMAIN connections
    /\ Registered("s2") # {}
    /\ Stored("s2") # <<>>

\* the events of a stream: its subscribe, its disconnect and its keepalive ticks
StreamEvents ==
    {"subscribe", "close", "keepalive"}

\* C38: each registry is changed only by its own operations: a subscribe, a
\* disconnect and a keepalive tick never change the notification store, and an
\* expiry run never changes the connection registry nor writes to or ends a stream.
C38_RegistriesChangeSeparately ==
    [][/\ (\E op \in StreamEvents : Handled(op)) => UNCHANGED notificationsByStudent
       /\ Handled("ttlCleanup") =>
             /\ UNCHANGED <<connections, sets, streams>>
             /\ resp'.written = {} /\ resp'.failed = {} /\ resp'.ended = {}]_vars

\* an expiry run dropped records of s1 while a stream of s1 is registered
C38_Witness ==
    /\ resp.op = "ttlCleanup"
    /\ "s1" \in resp.expired
    /\ \E c \in Registered("s1") : ~streams[c].writableEnded

\* the since values that are given and denote no valid instant: text that does not
\* parse, digits beyond the Date range, digits beyond the number range
InvalidInstants ==
    {"garbage", "digitsHuge", "digitsInf"}

\* C39: whenever since does not denote a valid instant, also when it is an all-digit
\* value beyond the representable range of instants, the missed-query returns all
\* stored records of the identity.
C39_InvalidSinceReturnsAll ==
    [][(Handled("missed") /\ resp'.since.kind \in InvalidInstants) =>
          resp'.notifications = Stored(resp'.studentId)]_vars

\* a publish body with grade 0, an assignment id and at least one target
GradeZero(body) ==
    /\ body.grade = 0
    /\ body.assignmentId \notin {Undefined, ""}
    /\ StudentIds(body) # <<>>

\* C40: a grade of 0 counts as present: a publish with grade 0, a non-empty
\* assignmentId and at least one target answers 200, appends its record to every
\* target and writes every open registered stream of the targets, and a publish
\* with an assignmentId is rejected for its grade only when the grade is absent or
\* null.
C40_GradeZeroIsAccepted ==
    [][Handled("publish") =>
          /\ GradeZero(resp'.body) =>
                /\ resp'.status = 200
                /\ resp'.stored = Cardinality(Targets(resp'.body))
                /\ \A s \in Targets(resp'.body) :
                       AppendedOne(Stored(s), Stored(s)', s, resp'.body)
                /\ resp'.written \cup resp'.failed = Attempted(resp'.body)
                /\ resp'.sent = Cardinality(resp'.written)
          /\ (/\ resp'.error = "Missing assignmentId or grade"
              /\ resp'.body.assignmentId \notin {Undefined, ""}) =>
                resp'.body.grade = NullGrade]_vars

\* a publish with grade 0 was answered 200, stored its record and was written to
\* the open stream of its target
C40_Witness ==
    /\ resp.op = "publish"
    /\ resp.body.grade = 0
    /\ resp.status = 200
    /\ resp.stored = 1
    /\ resp.sent = 1
    /\ Stored("s1") # <<>>
    /\ Stored("s1")[Len(Stored("s1"))].grade = 0

====
